---- MODULE Spec2Model ----
(***************************************************************************)
(* Model of the batch-extraction loop of IdenChallengeAutomation           *)
(* (src/iden_challenge_final_script.py): extract_product_data_in_batches,  *)
(* extract_and_save_current_batch, save_batch_to_file, create_final_output *)
(* and extract_all_products, together with the page they poll.             *)
(*                                                                         *)
(* A product record is identified by a natural number (the page gives      *)
(* every record it ever appends a fresh one).  A Python list of records is *)
(* kept as the sequence of its maximal runs of consecutive identifiers:    *)
(* <<[lo |-> 1, hi |-> 250]>> is the list of records 1, 2, ..., 250.  Two  *)
(* lists are equal exactly when their run sequences are equal, because     *)
(* every operation below returns maximal runs.                             *)
(***************************************************************************)
EXTENDS Integers, Sequences, FiniteSets, TLC

\* ---------------------------------------------------------------- bounds
\* Records a page that grows one record at a time appends during a run.
MaxAppend == 4
\* Most records such a page appends between two polls.
MaxStep == 2
\* Failures (an extraction error, a file that cannot be written) in one run.
MaxFaults == 1

\* ------------------------------------------------------ program constants
MAX_EXPECTED_PRODUCTS == 50000
max_consecutive_same == 3

\* ------------------------------------------------------------ list helpers
\* len(l)
RECURSIVE LLen(_)
LLen(l) ==
    IF l = <<>> THEN 0
    ELSE (Head(l).hi - Head(l).lo + 1) + LLen(Tail(l))

\* l[n:]  (Python slice: empty when n >= len(l))
RECURSIVE LDrop(_, _)
LDrop(l, n) ==
    IF l = <<>> THEN <<>>
    ELSE IF n <= 0 THEN l
    ELSE LET h == Head(l)
             sz == h.hi - h.lo + 1
         IN IF n >= sz THEN LDrop(Tail(l), n - sz)
            ELSE <<[lo |-> h.lo + n, hi |-> h.hi]>> \o Tail(l)

\* l[:n]
RECURSIVE LTake(_, _)
LTake(l, n) ==
    IF l = <<>> \/ n <= 0 THEN <<>>
    ELSE LET h == Head(l)
             sz == h.hi - h.lo + 1
         IN IF n >= sz THEN <<h>> \o LTake(Tail(l), n - sz)
            ELSE <<[lo |-> h.lo, hi |-> h.lo + n - 1]>>

\* a + b  (list.extend): the runs that meet at the seam are joined.
LCat(a, b) ==
    IF a = <<>> THEN b
    ELSE IF b = <<>> THEN a
    ELSE IF a[Len(a)].hi + 1 = b[1].lo
         THEN SubSeq(a, 1, Len(a) - 1)
                \o <<[lo |-> a[Len(a)].lo, hi |-> b[1].hi]>>
                \o Tail(b)
         ELSE a \o b

\* The n records first, first + 1, ..., first + n - 1.
Fresh(first, n) ==
    IF n = 0 THEN <<>> ELSE <<[lo |-> first, hi |-> first + n - 1]>>

\* ------------------------------------------------------------------ state
VARIABLES
    batch_size,              \* self.batch_size
    all_products,            \* self.all_products
    batch_number,            \* self.batch_number
    last_product_count,      \* local of extract_product_data_in_batches
    consecutive_same_count,  \* local of extract_product_data_in_batches
    current_count,           \* local of extract_product_data_in_batches
    pc,                      \* position in extract_product_data_in_batches
    files,                   \* the batch folder: file name -> batch_data
    final_output,            \* self.final_output_file: <<>> or <<final_data>>
    final_calls,             \* calls of create_final_output so far
    source,                  \* the records the page shows now
    next_id,                 \* identifier of the next record the page appends
    room,                    \* records the page may still append
    append_only,             \* FALSE: the page drops its first record
                             \* whenever it appends (a sliding window)
    steps,                   \* what the page may append between two polls
    late,                    \* what it may append between count and extraction
    faults,                  \* failures so far
    counts,                  \* history: the count observed by each poll
    calls                    \* history: each extract_and_save_current_batch call

vars == <<batch_size, all_products, batch_number, last_product_count,
          consecutive_same_count, current_count, pc, files, final_output,
          final_calls, source, next_id, room, append_only, steps, late,
          faults, counts, calls>>

\* The runs explored: the constructor's batch_size, the number of records
\* the page shows when the loop starts, what it may append between two
\* polls (steps), between a count and the extraction that follows (late)
\* and in the whole run (room).
Configs ==
    { \* a page that starts empty and grows a record or two at a time
      [batch_size |-> 2, initial |-> 0, steps |-> 0..MaxStep, late |-> 1,
       room |-> MaxAppend],
      \* a page that grows by 100 and 150 records, with batch_size = 100
      [batch_size |-> 100, initial |-> 0, steps |-> {0, 100, 150}, late |-> 50,
       room |-> 250],
      \* a page that starts just below the ceiling
      [batch_size |-> 2, initial |-> MAX_EXPECTED_PRODUCTS - 1,
       steps |-> 0..MaxStep, late |-> 1, room |-> MaxAppend] }

\* __init__ (lines 44-58) and the locals set before the loop (243-245).
Init ==
    \E c \in Configs, stable \in BOOLEAN :
        /\ batch_size = c.batch_size
        /\ steps = c.steps
        /\ late = c.late
        /\ append_only = stable
        /\ source = Fresh(1, c.initial)
        /\ next_id = c.initial + 1
        /\ room = c.room
        /\ faults = 0
        /\ all_products = <<>>
        /\ batch_number = 1
        /\ last_product_count = 0
        /\ consecutive_same_count = 0
        /\ current_count = 0
        /\ pc = "poll"
        /\ files = <<>>
        /\ final_output = <<>>
        /\ final_calls = 0
        /\ counts = <<>>
        /\ calls = <<>>

\* ------------------------------------------------------------------- page
\* What the page shows after it appended grow fresh records: an append-only
\* page keeps what it showed; a sliding one drops its first record whenever
\* it appends.
PageAfter(grow) ==
    LCat(LDrop(source, IF append_only \/ grow = 0 THEN 0 ELSE 1),
         Fresh(next_id, grow))

PageChange(grow) ==
    /\ grow <= room
    /\ source' = PageAfter(grow)
    /\ next_id' = next_id + grow
    /\ room' = room - grow

\* ------------------------------------------------- extract_all_products
\* Mutant of ExtractAllProducts: the error marker is not recognised and
\* what the page shows is returned.
ExtractAllProductsUnchecked(page, outcome) == page

\* The page-side evaluation returns the visible records, or the error
\* marker, for which the function returns [] (lines 419-423).
ExtractAllProducts(page, outcome) ==
    IF outcome = "error_marker" THEN <<>> ELSE page

\* --------------------------------------------------- save_batch_to_file
\* f"batch_{n:03d}.json": the decimal digits of n, zero-padded to width 3.
RECURSIVE Digits(_)
Digits(n) == IF n < 10 THEN <<n>> ELSE Digits(n \div 10) \o <<n % 10>>

RECURSIVE Pad3(_)
Pad3(d) == IF Len(d) >= 3 THEN d ELSE Pad3(<<0>> \o d)

BatchFileName(n) == Pad3(Digits(n))

\* batch_data (lines 315-324); the timestamp and base_url are left out.
BatchData(n, batch_products, all) ==
    [ batch_number          |-> n,
      products_in_batch     |-> LLen(batch_products),
      total_products_so_far |-> LLen(all),
      products              |-> batch_products ]

\* The folder after save_batch_to_file: open(..., 'w') replaces the file of
\* that name; a write error is caught and logged and leaves no file.
SaveBatchToFile(folder, n, batch_products, all, write_ok) ==
    IF write_ok
    THEN (BatchFileName(n) :> BatchData(n, batch_products, all)) @@ folder
    ELSE folder

\* ----------------------------------------- extract_and_save_current_batch
\* Mutant of NewProducts: the whole snapshot is taken as new.
NewProductsWhole(current_products, all) == current_products

\* Mutant of NewProducts: the slice starts one record too far.
NewProductsOffByOne(current_products, all) ==
    LDrop(current_products, LLen(all) + 1)

\* new_products = current_products[len(self.all_products):]   (line 294)
NewProducts(current_products, all) == LDrop(current_products, LLen(all))

\* if not new_products and not force_save: return             (line 296)
NothingToDo(new_products, force_save) == new_products = <<>> /\ ~force_save

\* Mutant of Extended: the new records are not kept.
ExtendedLost(all, new_products) == all

\* self.all_products.extend(new_products)                     (line 300)
Extended(all, new_products) == LCat(all, new_products)

\* Mutant of ShouldSave: force_save is not looked at.
ShouldSaveThresholdOnly(new_products, size, force_save) ==
    LLen(new_products) >= size

\* Mutant of ShouldSave: a forced flush with nothing new writes no batch.
ShouldSaveNonEmpty(new_products, size, force_save) ==
    LLen(new_products) >= size \/ (force_save /\ new_products # <<>>)

\* if len(new_products) >= self.batch_size or force_save      (line 302)
ShouldSave(new_products, size, force_save) ==
    LLen(new_products) >= size \/ force_save

\* Mutant of NextBatchNumber: the number is not advanced.
NextBatchNumberSame(n) == n

\* batch_number after a save                                  (line 305)
NextBatchNumber(n) == n + 1

\* One call.  grow: what the page appended since the count was taken;
\* outcome: "ok", "error_marker" (the page-side catch) or "raise" (the
\* evaluation itself raises, caught at line 307); write_ok: whether the
\* batch file could be written.
ExtractAndSaveCurrentBatch(force_save, grow, outcome, write_ok) ==
    LET page == PageAfter(grow)
        current_products == ExtractAllProducts(page, outcome)
        new_products == NewProducts(current_products, all_products)
        returns == outcome = "raise" \/ NothingToDo(new_products, force_save)
        all == IF returns THEN all_products
                          ELSE Extended(all_products, new_products)
        saves == ~returns /\ ShouldSave(new_products, batch_size, force_save)
        fault == (IF outcome # "ok" THEN 1 ELSE 0)
                   + (IF saves /\ ~write_ok THEN 1 ELSE 0)
    IN /\ PageChange(grow)
       /\ ~saves => write_ok
       /\ faults + fault <= MaxFaults
       /\ faults' = faults + fault
       /\ all_products' = all
       /\ files' = IF saves
                   THEN SaveBatchToFile(files, batch_number, new_products,
                                        all, write_ok)
                   ELSE files
       /\ batch_number' = IF saves THEN NextBatchNumber(batch_number)
                                   ELSE batch_number
       /\ calls' = Append(calls,
                     [ force    |-> force_save,
                       poll     |-> Len(counts),
                       count    |-> current_count,
                       outcome  |-> outcome,
                       snapshot |-> IF outcome = "raise" THEN <<>>
                                                         ELSE current_products,
                       before   |-> all_products,
                       new      |-> IF outcome = "raise" THEN <<>> ELSE new_products,
                       after    |-> all,
                       number   |-> batch_number,
                       saved    |-> IF ~saves THEN "none"
                                    ELSE IF write_ok THEN "written" ELSE "failed" ])

Outcomes == {"ok", "error_marker", "raise"}

\* ------------------------------------------------- create_final_output
\* Mutant of FinalData: the output holds the collection without its last
\* record.
FinalDataShort(all, n, size) ==
    [ total_products |-> LLen(all),
      total_batches  |-> n - 1,
      batch_size     |-> size,
      products       |-> LTake(all, LLen(all) - 1) ]

\* final_data (lines 337-347); timestamp, base_url and extractor left out.
FinalData(all, n, size) ==
    [ total_products |-> LLen(all),
      total_batches  |-> n - 1,
      batch_size     |-> size,
      products       |-> all ]

\* ------------------------------------- extract_product_data_in_batches
\* if current_count == last_product_count                     (line 258)
SameCount(count, last) == count = last

\* Mutant of CountedSame: a changed count resets the counter to 1.
CountedSameResetToOne(same, n) == IF same THEN n + 1 ELSE 1

\* consecutive_same_count after the comparison           (lines 259, 265)
CountedSame(same, n) == IF same THEN n + 1 ELSE 0

\* Mutant of Stalled: the loop stops one unchanged poll too early.
StalledEarly(same, n) == same /\ n >= max_consecutive_same - 1

\* if consecutive_same_count >= max_consecutive_same          (line 260)
Stalled(same, n) == same /\ n >= max_consecutive_same

\* Mutant of ThresholdMet: any new record triggers the flush call.
ThresholdMetAny(count, all, size) == count - LLen(all) >= 1

\* if current_count - len(self.all_products) >= batch_size    (line 268)
ThresholdMet(count, all, size) == count - LLen(all) >= size

\* Mutant of OverCeiling: the ceiling is taken one record too high.
OverCeilingOffByOne(count) == count > MAX_EXPECTED_PRODUCTS + 1

\* if current_count > MAX_EXPECTED_PRODUCTS                   (line 274)
OverCeiling(count) == count > MAX_EXPECTED_PRODUCTS

\* Lines 248-266: scroll, settle, count, compare with the last count.
Poll ==
    /\ pc = "poll"
    /\ \E grow \in steps :
          /\ PageChange(grow)
          /\ current_count' = LLen(PageAfter(grow))
    /\ counts' = Append(counts, current_count')
    /\ LET same == SameCount(current_count', last_product_count)
       IN /\ consecutive_same_count' = CountedSame(same, consecutive_same_count)
          /\ pc' = IF Stalled(same, consecutive_same_count')
                   THEN "stall_flush" ELSE "threshold"
    /\ UNCHANGED <<batch_size, all_products, batch_number, last_product_count,
                   files, final_output, final_calls, append_only, steps,
                   late, faults, calls>>

\* The scroll or the count raises: the outer handler (lines 284-286) logs
\* and returns False; no consolidated output is written.
PollRaises ==
    /\ pc = "poll"
    /\ faults < MaxFaults
    /\ faults' = faults + 1
    /\ pc' = "aborted"
    /\ UNCHANGED <<batch_size, all_products, batch_number, last_product_count,
                   consecutive_same_count, current_count, files, final_output,
                   final_calls, source, next_id, room, append_only, steps,
                   late, counts, calls>>

\* Lines 261-263: the forced flush at stall detection, then break.
StallFlush ==
    /\ pc = "stall_flush"
    /\ \E grow \in {0, late}, outcome \in Outcomes, write_ok \in BOOLEAN :
          ExtractAndSaveCurrentBatch(TRUE, grow, outcome, write_ok)
    /\ pc' = "final"
    /\ UNCHANGED <<batch_size, last_product_count, consecutive_same_count,
                   current_count, final_output, final_calls, append_only,
                   steps, late, counts>>

\* Lines 268-271: flush when the threshold is met; remember the count.
ThresholdFlush ==
    /\ pc = "threshold"
    /\ IF ThresholdMet(current_count, all_products, batch_size)
       THEN \E grow \in {0, late}, outcome \in Outcomes, write_ok \in BOOLEAN :
               ExtractAndSaveCurrentBatch(FALSE, grow, outcome, write_ok)
       ELSE UNCHANGED <<all_products, batch_number, files, calls, source,
                        next_id, room, faults>>
    /\ last_product_count' = current_count
    /\ pc' = "ceiling"
    /\ UNCHANGED <<batch_size, consecutive_same_count, current_count,
                   final_output, final_calls, append_only, steps, late,
                   counts>>

\* Lines 274-277: the safety ceiling: forced flush and break, or loop.
CeilingCheck ==
    /\ pc = "ceiling"
    /\ IF OverCeiling(current_count)
       THEN /\ \E grow \in {0, late}, outcome \in Outcomes, write_ok \in BOOLEAN :
                  ExtractAndSaveCurrentBatch(TRUE, grow, outcome, write_ok)
            /\ pc' = "final"
       ELSE /\ pc' = "poll"
            /\ UNCHANGED <<all_products, batch_number, files, calls, source,
                           next_id, room, faults>>
    /\ UNCHANGED <<batch_size, last_product_count, consecutive_same_count,
                   current_count, final_output, final_calls, append_only,
                   steps, late, counts>>

\* Lines 279-282 and 334-357: the consolidated output; a write error is
\* caught and logged inside create_final_output and leaves no file.
CreateFinalOutput ==
    /\ pc = "final"
    /\ \E write_ok \in BOOLEAN :
          /\ ~write_ok => faults < MaxFaults
          /\ faults' = IF write_ok THEN faults ELSE faults + 1
          /\ final_output' =
                IF write_ok
                THEN <<FinalData(all_products, batch_number, batch_size)>>
                ELSE final_output
    /\ final_calls' = final_calls + 1
    /\ pc' = "done"
    /\ UNCHANGED <<batch_size, all_products, batch_number, last_product_count,
                   consecutive_same_count, current_count, files, source,
                   next_id, room, append_only, steps, late, counts, calls>>

Next ==
    \/ Poll
    \/ PollRaises
    \/ StallFlush
    \/ ThresholdFlush
    \/ CeilingCheck
    \/ CreateFinalOutput

Spec == Init /\ [][Next]_vars

\* The loop is the only thread of control and each of its steps returns:
\* a step that can be taken is taken.
FairSpec == Spec /\ WF_vars(Next)

\* ================================================================ claims
\* Shorthands over the two histories.
NCalls == Len(calls)
NPolls == Len(counts)
LastCall == calls[NCalls]
LoopLeft == pc \in {"final", "done"}
NoExtractionError == \A i \in 1..NCalls : calls[i].outcome = "ok"

\* C1: over an append-only page (each snapshot a prefix of the next) and
\* with no extraction error, all_products at loop termination is exactly
\* the last snapshot taken: the same records in the same order.
C1_FinalEqualsLastSnapshot ==
    (LoopLeft /\ append_only /\ NoExtractionError)
        => /\ NCalls >= 1
           /\ all_products = LastCall.snapshot
           /\ all_products = source

\* C1 witness: a finished run over an append-only page with no error that
\* gathered its records in several calls, the last of them below the
\* threshold.
C1_Witness ==
    /\ pc = "done" /\ append_only /\ NoExtractionError
    /\ NCalls >= 2
    /\ LastCall.new # <<>>
    /\ LLen(LastCall.new) < batch_size
    /\ LLen(all_products) >= 3

\* Scenario A: batch_size = 100 and polls that see 0, 100, 250, 250, 250,
\* 250 records, each extraction seeing what its poll counted, nothing
\* failing.
ScenarioA ==
    /\ batch_size = 100
    /\ counts = <<0, 100, 250, 250, 250, 250>>
    /\ LoopLeft
    /\ \A i \in 1..NCalls :
          /\ calls[i].outcome = "ok"
          /\ LLen(calls[i].snapshot) = calls[i].count
          /\ calls[i].saved # "failed"

\* C2 as stated: in scenario A three batches are written, of the first
\* 100 records, the next 100 and the remaining 50; the total is 250.
C2_AsStated ==
    ScenarioA
        => /\ DOMAIN files = {<<0, 0, 1>>, <<0, 0, 2>>, <<0, 0, 3>>}
           /\ files[<<0, 0, 1>>].products = Fresh(1, 100)
           /\ files[<<0, 0, 2>>].products = Fresh(101, 100)
           /\ files[<<0, 0, 3>>].products = Fresh(201, 50)
           /\ LLen(all_products) = 250

\* C2 as amended: in scenario A three batches are written: batch 1 holds
\* the first 100 records (threshold flush), batch 2 holds all the next
\* 150 records (threshold flush of the whole delta), batch 3 is the
\* forced flush at stall detection and holds no record; the total is 250.
C2_ScenarioA ==
    ScenarioA
        => /\ DOMAIN files = {<<0, 0, 1>>, <<0, 0, 2>>, <<0, 0, 3>>}
           /\ files[<<0, 0, 1>>].products = Fresh(1, 100)
           /\ files[<<0, 0, 1>>].total_products_so_far = 100
           /\ files[<<0, 0, 2>>].products = Fresh(101, 150)
           /\ files[<<0, 0, 2>>].total_products_so_far = 250
           /\ files[<<0, 0, 3>>].products = <<>>
           /\ files[<<0, 0, 3>>].products_in_batch = 0
           /\ ~calls[1].force /\ ~calls[2].force /\ calls[3].force
           /\ LLen(all_products) = 250

\* C2 witness: scenario A has run to its end.
C2_Witness == ScenarioA /\ pc = "done" /\ final_output # <<>>

\* Poll i saw the count of the poll before it.
SameAsPollBefore(i) == i >= 2 /\ counts[i] = counts[i - 1]

\* The same, the first poll being compared with the initial count 0.
SameAsLast(i) == counts[i] = (IF i = 1 THEN 0 ELSE counts[i - 1])

\* Number of consecutive polls, ending with poll n, that saw the count of
\* the poll before them.
RECURSIVE RunBefore(_)
RunBefore(n) ==
    IF n = 0 \/ ~SameAsPollBefore(n) THEN 0 ELSE 1 + RunBefore(n - 1)

RECURSIVE RunLast(_)
RunLast(n) == IF n = 0 \/ ~SameAsLast(n) THEN 0 ELSE 1 + RunLast(n - 1)

JustPolled == pc \in {"threshold", "stall_flush"}

\* C3 as stated: the loop stops by stall in exactly the poll that is the
\* 3rd consecutive poll whose count equals that of the poll before it.
C3_AsStated ==
    JustPolled => (pc = "stall_flush" <=> RunBefore(NPolls) = 3)

\* C3 as amended: the same, the first poll being compared with an initial
\* last count of 0: a poll whose count differs from the last count resets
\* consecutive_same_count to 0, the loop keeps polling after 1 or 2
\* consecutive unchanged polls and stops in the 3rd.
C3_StallAtThird ==
    /\ consecutive_same_count = RunLast(NPolls)
    /\ consecutive_same_count <= 3
    /\ JustPolled => (pc = "stall_flush" <=> RunLast(NPolls) = 3)
    /\ NPolls >= 1 /\ pc # "poll" => last_product_count \in
          {counts[NPolls], IF NPolls = 1 THEN 0 ELSE counts[NPolls - 1]}

\* C3 witness: a stall detected after the count had changed and then
\* stayed for three polls, a reset having happened after two unchanged
\* polls earlier in the run.
C3_Witness ==
    /\ pc = "stall_flush"
    /\ NPolls >= 7
    /\ \E i \in 3..(NPolls - 4) :
          /\ SameAsLast(i - 1) /\ SameAsLast(i - 2) /\ ~SameAsLast(i)

\* Some poll saw more records than the ceiling allows.
CeilingSeen == \E i \in 1..NPolls : counts[i] > MAX_EXPECTED_PRODUCTS

\* The poll that saw it is the last poll, its iteration goes straight
\* through the forced flush to the end of the loop, and that forced flush
\* is the last call.
CeilingEndsLoop ==
    CeilingSeen
        => /\ \A i \in 1..NPolls :
                 counts[i] > MAX_EXPECTED_PRODUCTS => i = NPolls
           /\ pc \in {"threshold", "ceiling", "final", "done"}
           /\ LoopLeft => /\ NCalls >= 1
                          /\ LastCall.force
                          /\ LastCall.poll = NPolls
           /\ final_output # <<>>
                 => final_output[1].total_products = LLen(all_products)

C5_TerminatesAndWritesOnce ==
    /\ ([](pc # "aborted")) => <>(pc = "done")
    /\ [](final_calls = (IF pc = "done" THEN 1 ELSE 0))
    /\ [](final_output # <<>>
            => /\ pc = "done"
               /\ final_output[1].products = all_products
               /\ final_output[1].total_products = LLen(all_products))
    /\ [][final_calls' > final_calls
            => /\ calls' = calls /\ files' = files
               /\ all_products' = all_products
               /\ NCalls >= 1 /\ LastCall.force]_vars
    /\ [][final_calls >= 1 => UNCHANGED vars]_vars

\* C5 witness: a run that left the loop by stall after several batches and
\* wrote its output.
C5_Witness ==
    /\ pc = "done" /\ final_output # <<>>
    /\ ~CeilingSeen
    /\ batch_number >= 3
    /\ LLen(all_products) >= 3

\* C6: the consolidated output has total_products equal to the length of
\* the accumulated collection and total_batches equal to the number of
\* batch files written, also when a batch file could not be written.
C6_AsStated ==
    final_output # <<>>
        => /\ final_output[1].total_products = LLen(all_products)
           /\ final_output[1].total_batches = Cardinality(DOMAIN files)

\* The calls that flushed (wrote, or tried to write, a batch file).
Flushes == { i \in 1..NCalls : calls[i].saved # "none" }

\* C7: flushes are numbered 1, 2, 3, ... in the order they happen, each
\* writes to a file name no earlier flush of the run used, and a batch
\* file, once written, is never changed or removed.
C7_BatchFilesImmutable ==
    /\ [](\A i \in Flushes :
             /\ calls[i].number = Cardinality({ j \in Flushes : j < i }) + 1
             /\ \A j \in Flushes :
                   j < i => /\ calls[j].number < calls[i].number
                            /\ BatchFileName(calls[j].number)
                                  # BatchFileName(calls[i].number))
    /\ [](batch_number = Cardinality(Flushes) + 1)
    /\ [][\A f \in DOMAIN files :
             f \in DOMAIN files' /\ files'[f] = files[f]]_vars

\* C7 witness: three batch files written by three flushes.
C7_Witness ==
    /\ Cardinality(DOMAIN files) >= 3
    /\ Cardinality(Flushes) >= 3

\* The step is a call of extract_and_save_current_batch whose extraction
\* got the error marker.
ErrorMarkerCall ==
    /\ calls' # calls
    /\ calls'[Len(calls')].outcome = "error_marker"

\* C8 as stated: a call whose extraction got the error marker leaves the
\* accumulated collection and the batch number unchanged, writes no batch
\* file, and the loop goes on polling.
C8_AsStated ==
    [][ErrorMarkerCall
          => /\ all_products' = all_products
             /\ batch_number' = batch_number
             /\ files' = files
             /\ pc' = "ceiling"]_vars

\* C8 as amended: a call whose extraction got the error marker sees an
\* empty snapshot and leaves the accumulated collection unchanged.  In a
\* threshold (non-forced) flush the batch number is unchanged, no file is
\* written and the iteration goes on to the ceiling check.  In a forced
\* flush (stall or ceiling) an empty batch is flushed under the current
\* number, the batch number advances and the loop ends.
C8_ErrorIsEmptySnapshot ==
    [][ErrorMarkerCall
          => LET c == calls'[Len(calls')]
             IN /\ c.snapshot = <<>>
                /\ all_products' = all_products
                /\ IF c.force
                   THEN /\ batch_number' = batch_number + 1
                        /\ pc' = "final"
                        /\ c.saved # "none"
                        /\ c.saved = "written"
                              => /\ DOMAIN files' = DOMAIN files
                                       \cup {BatchFileName(batch_number)}
                                 /\ files'[BatchFileName(batch_number)]
                                       .products = <<>>
                   ELSE /\ batch_number' = batch_number
                        /\ files' = files
                        /\ pc' = "ceiling"]_vars

\* C8 witness: the error marker came in a threshold flush, when records
\* were already accumulated and more were waiting, and the loop polled
\* again afterwards.
C8_Witness ==
    \E i \in 1..NCalls :
        /\ calls[i].outcome = "error_marker"
        /\ ~calls[i].force
        /\ calls[i].before # <<>>
        /\ calls[i].count - LLen(calls[i].before) >= batch_size
        /\ NPolls > calls[i].poll

\* The records call i added are in list l where the call put them.
KeptIn(l, i) ==
    LTake(LDrop(l, LLen(calls[i].before)), LLen(calls[i].new)) = calls[i].new

FailedWrites == { i \in 1..NCalls : calls[i].saved = "failed" }

\* C9: a batch file that cannot be written does not abort the loop: the
\* step that failed goes on to the ceiling check or to the end of the
\* loop, the run then reaches its end (pc = "aborted" only if a later
\* scroll or count raises, which is no file-write error), and the
\* records of the failed batch stay in all_products and are in the
\* consolidated output.
C9_WriteErrorSwallowed ==
    /\ [][(calls' # calls /\ calls'[Len(calls')].saved = "failed")
            => /\ pc' = (IF calls'[Len(calls')].force THEN "final" ELSE "ceiling")
               /\ all_products' = calls'[Len(calls')].after
               /\ files' = files
               /\ calls'[Len(calls')].new # <<>> \/ calls'[Len(calls')].force]_vars
    /\ [](\A i \in FailedWrites :
             /\ KeptIn(all_products, i)
             /\ final_output # <<>> => KeptIn(final_output[1].products, i))
    /\ (FailedWrites # {}) ~> (pc \in {"done", "aborted"})

\* C9 witness: a finished run whose first batch could not be written, with
\* the records of that batch in the output.
C9_Witness ==
    /\ pc = "done" /\ final_output # <<>>
    /\ \E i \in FailedWrites :
          /\ ~calls[i].force
          /\ LLen(calls[i].new) >= batch_size
          /\ NPolls > calls[i].poll
          /\ LLen(final_output[1].products) > LLen(calls[i].new)

\* C10: two calls in a row that get the same snapshot do not count it
\* twice: the second finds nothing new and leaves all_products as the
\* first left it.
C10_FlushIdempotent ==
    \A i \in 1..(NCalls - 1) :
        (/\ calls[i].outcome = "ok" /\ calls[i + 1].outcome = "ok"
         /\ calls[i].snapshot = calls[i + 1].snapshot)
            => /\ calls[i + 1].before = calls[i].after
               /\ calls[i + 1].new = <<>>
               /\ calls[i + 1].after = calls[i].after
               /\ LLen(calls[i + 1].after) = LLen(calls[i].snapshot)

\* C10 witness: a call that added records, followed by a call on the same
\* snapshot.
C10_Witness ==
    \E i \in 1..(NCalls - 1) :
        /\ calls[i].outcome = "ok" /\ calls[i + 1].outcome = "ok"
        /\ calls[i].snapshot = calls[i + 1].snapshot
        /\ calls[i].before # <<>>
        /\ calls[i].new # <<>>
        /\ all_products = calls[i + 1].after

\* C11 as stated: no batch file with zero products is ever written: every
\* flush, forced or not, writes a file and advances the batch number only
\* when its delta is non-empty.
C11_AsStated ==
    /\ \A f \in DOMAIN files : /\ files[f].products # <<>>
                               /\ files[f].products_in_batch > 0
    /\ \A i \in Flushes : calls[i].new # <<>>

\* C11 as amended: a batch file with zero products is written only by a
\* forced flush (stall or ceiling) whose delta is empty.  A non-forced
\* flush writes a file and advances the batch number only when its delta
\* has at least batch_size records, and does nothing on an empty delta; a
\* forced flush whose extraction does not raise always writes a file and
\* advances the batch number, also when its delta is empty.
C11_EmptyBatchOnlyWhenForced ==
    /\ \A i \in 1..NCalls :
          /\ (calls[i].saved # "none" /\ ~calls[i].force)
                => /\ calls[i].new # <<>>
                   /\ LLen(calls[i].new) >= batch_size
          /\ (calls[i].force /\ calls[i].outcome # "raise")
                => calls[i].saved # "none"
          /\ (~calls[i].force /\ calls[i].new = <<>>)
                => /\ calls[i].saved = "none"
                   /\ calls[i].after = calls[i].before
          /\ calls[i].saved = "written"
                => /\ BatchFileName(calls[i].number) \in DOMAIN files
                   /\ files[BatchFileName(calls[i].number)].products
                         = calls[i].new
    /\ \A f \in DOMAIN files :
          /\ files[f].products_in_batch = LLen(files[f].products)
          /\ files[f].products = <<>>
                => \E i \in Flushes :
                      /\ calls[i].force
                      /\ calls[i].new = <<>>
                      /\ BatchFileName(calls[i].number) = f
    /\ batch_number = Cardinality(Flushes) + 1

\* C11 witness: a forced flush that found nothing new wrote a batch file
\* with zero products, after a batch with records.
C11_Witness ==
    /\ LoopLeft
    /\ LastCall.force /\ LastCall.new = <<>> /\ LastCall.saved = "written"
    /\ files[BatchFileName(LastCall.number)].products_in_batch = 0
    /\ \E f \in DOMAIN files : files[f].products # <<>>

\* The products of batch files 1..k, in batch-number order.
RECURSIVE BatchesUpTo(_)
BatchesUpTo(k) ==
    IF k = 0 THEN <<>>
    ELSE LCat(BatchesUpTo(k - 1), files[BatchFileName(k)].products)

\* The sum of products_in_batch of batch files 1..k.
RECURSIVE CountUpTo(_)
CountUpTo(k) ==
    IF k = 0 THEN 0
    ELSE CountUpTo(k - 1) + files[BatchFileName(k)].products_in_batch

\* C12: in every state of a run over an append-only page in which every
\* batch write succeeded, the batch files are those numbered 1 to
\* batch_number - 1, their products put end to end in batch-number order
\* are all_products, and the total_products_so_far of each batch is the
\* sum of products_in_batch of the batches up to and including it.
C12_BatchesAreTheCollection ==
    (append_only /\ FailedWrites = {})
        => /\ DOMAIN files = { BatchFileName(k) : k \in 1..(batch_number - 1) }
           /\ BatchesUpTo(batch_number - 1) = all_products
           /\ \A k \in 1..(batch_number - 1) :
                 /\ files[BatchFileName(k)].batch_number = k
                 /\ files[BatchFileName(k)].total_products_so_far = CountUpTo(k)
           /\ \A i \in 1..NCalls :
                 calls[i].after # calls[i].before => calls[i].saved = "written"

\* C12 witness: a finished run over an append-only page, every write
\* succeeding, with two batches of records and more than batch_size
\* records in all.
C12_Witness ==
    /\ pc = "done" /\ append_only /\ FailedWrites = {}
    /\ batch_number >= 3
    /\ files[BatchFileName(1)].products # <<>>
    /\ files[BatchFileName(2)].products # <<>>
    /\ LLen(all_products) > batch_size

\* Every poll so far saw the same count, not above the ceiling.
ConstantCount ==
    /\ NPolls >= 1
    /\ \A i \in 1..NPolls : counts[i] = counts[1]
    /\ counts[1] <= MAX_EXPECTED_PRODUCTS

\* Polls after which a page that always shows k records is stopped.
PollsToStall(k) == IF k = 0 THEN 3 ELSE 4

\* C13: the first poll is compared with an initial last count of 0: while
\* the page shows the same count k (not above the ceiling) from the first
\* poll on, the loop keeps polling until poll 3 when k = 0 and until poll
\* 4 when k > 0, and that poll detects the stall.
C13_ConstantCountStall ==
    ConstantCount
        => /\ NPolls <= PollsToStall(counts[1])
           /\ NPolls = PollsToStall(counts[1])
                 => pc \in {"stall_flush", "final", "done"}
           /\ NPolls < PollsToStall(counts[1])
                 => pc \in {"threshold", "ceiling", "poll", "aborted"}
           /\ consecutive_same_count =
                 (IF counts[1] = 0 THEN NPolls ELSE NPolls - 1)

\* C13 witness: a page that showed no record at all, stopped by the third
\* poll.
C13_Witness ==
    /\ ConstantCount /\ counts[1] = 0
    /\ NPolls = 3 /\ pc = "stall_flush"

\* A page that showed the same k > 0 records from the first poll on,
\* stopped by the fourth poll.
C13_PositiveCountReached ==
    /\ ConstantCount /\ counts[1] > 0
    /\ NPolls = 4 /\ pc = "stall_flush"

====
